---- MODULE Spec2Model ----
(***************************************************************************)
(* FlatGem: the file-processing worker (app/logic/file_processor.py), the  *)
(* API wrapper it calls (app/logic/api_handler.py) and the main window's   *)
(* Start / Pause / Stop handlers (app/views/main_window.py); the pre-flight *)
(* scan, the settings file (app/logic/settings_handler.py) and the welcome *)
(* window with its key validator (app/views/welcome_window.py), each under *)
(* a specification of its own.                                             *)
(*                                                                         *)
(* Paths are sequences of one-character strings; the file system is a set  *)
(* of locations, a location being the sequence of a file's components.     *)
(* Texts returned by the API are sequences of tokens.                      *)
(***************************************************************************)
EXTENDS Integers, Sequences, FiniteSets, TLC

\* ---------------------------------------------------------------- bounds
\* Largest number of files in the input tree.
MaxFiles == 2
\* Number of FileProcessor objects that can be alive at once.
MaxWorkers == 2
\* Largest number of undelivered processing_finished signals of a worker
\* at the moment a later worker is started.
MaxStale == 1

Slots == 1..MaxWorkers

\* ------------------------------------------------------- strings, os.path
startswith(s, prefix) ==
    /\ Len(s) >= Len(prefix)
    /\ SubSeq(s, 1, Len(prefix)) = prefix

endswith(s, suffix) ==
    /\ Len(s) >= Len(suffix)
    /\ SubSeq(s, Len(s) - Len(suffix) + 1, Len(s)) = suffix

RECURSIVE lstrip(_)
lstrip(s) ==
    IF s # <<>> /\ s[1] = " " THEN lstrip(Tail(s)) ELSE s

RECURSIVE rstrip(_)
rstrip(s) ==
    IF s # <<>> /\ s[Len(s)] = " " THEN rstrip(SubSeq(s, 1, Len(s) - 1)) ELSE s

\* str.strip()
strip(s) == rstrip(lstrip(s))

\* str.rfind(c), 1-based; 0 when c does not occur (Python's -1)
RECURSIVE rfind(_, _)
rfind(p, c) ==
    IF p = <<>> THEN 0
    ELSE IF p[Len(p)] = c THEN Len(p)
    ELSE rfind(SubSeq(p, 1, Len(p) - 1), c)

\* A plausible slip: the extension is looked for in the whole path, not
\* only in its last component.
splitextWholePath(p) ==
    LET dotIndex == rfind(p, ".")
    IN  IF dotIndex > 1
        THEN <<SubSeq(p, 1, dotIndex - 1), SubSeq(p, dotIndex, Len(p))>>
        ELSE <<p, <<>>>>

\* os.path.splitext(p): <<root, ext>>.  The extension starts at the last
\* dot of the last component, leading dots of that component not counting.
splitext(p) ==
    LET sepIndex == rfind(p, "/")
        dotIndex == rfind(p, ".")
    IN  IF /\ dotIndex > sepIndex
           /\ \E k \in (sepIndex + 1)..(dotIndex - 1) : p[k] # "."
        THEN <<SubSeq(p, 1, dotIndex - 1), SubSeq(p, dotIndex, Len(p))>>
        ELSE <<p, <<>>>>

\* os.path.join(a, b)
join(a, b) ==
    IF startswith(b, <<"/">>) THEN b
    ELSE IF a = <<>> \/ endswith(a, <<"/">>) THEN a \o b
    ELSE a \o <<"/">> \o b

\* os.path.basename(p)
basename(p) == SubSeq(p, rfind(p, "/") + 1, Len(p))

RECURSIVE rstripSep(_)
rstripSep(s) ==
    IF s # <<>> /\ s[Len(s)] = "/" THEN rstripSep(SubSeq(s, 1, Len(s) - 1)) ELSE s

\* os.path.dirname(p)
dirname(p) ==
    LET head == SubSeq(p, 1, rfind(p, "/"))
    IN  IF head # <<>> /\ rstripSep(head) # <<>> THEN rstripSep(head) ELSE head

\* p.split("/") without its empty and "." components, as normpath leaves
\* them (the paths of the model hold no ".." component).
RECURSIVE Components(_)
Components(p) ==
    IF p = <<>> THEN <<>>
    ELSE LET k == CHOOSE n \in 1..(Len(p) + 1) :
                      /\ n = Len(p) + 1 \/ p[n] = "/"
                      /\ \A m \in 1..(n - 1) : p[m] # "/"
             first == SubSeq(p, 1, k - 1)
             rest == IF k >= Len(p) THEN <<>> ELSE SubSeq(p, k + 1, Len(p))
         IN  IF first = <<>> \/ first = <<".">>
             THEN Components(rest)
             ELSE <<first>> \o Components(rest)

\* os.path.join(*comps)
RECURSIVE JoinAll(_)
JoinAll(comps) ==
    IF comps = <<>> THEN <<>>
    ELSE IF Len(comps) = 1 THEN comps[1]
    ELSE join(JoinAll(SubSeq(comps, 1, Len(comps) - 1)), comps[Len(comps)])

\* The working directory of the process.
CwdComps == << <<"w">> >>

\* The location os.path.abspath(p) names.
abspath(p) ==
    IF startswith(p, <<"/">>) THEN Components(p) ELSE CwdComps \o Components(p)

RECURSIVE CommonLen(_, _)
CommonLen(a, b) ==
    IF a = <<>> \/ b = <<>> \/ a[1] # b[1] THEN 0
    ELSE 1 + CommonLen(Tail(a), Tail(b))

\* os.path.relpath(path, start)
relpath(path, start) ==
    LET start_list == abspath(start)
        path_list == abspath(path)
        i == CommonLen(start_list, path_list)
        rel_list == [k \in 1..(Len(start_list) - i) |-> <<".", ".">>]
                        \o SubSeq(path_list, i + 1, Len(path_list))
    IN  IF rel_list = <<>> THEN <<".">> ELSE JoinAll(rel_list)

\* ------------------------------------------------------- the file system
\* One-character strings of a word given as a sequence.
FileA == <<"a", ".", "t">>
FileB == <<"b">>
FileHidden == <<".", "h">>
FileTwoDots == <<"a", ".", "b", ".", "t">>
DirD == <<"d">>
DirDotted == <<"d", ".", "v">>

\* Files of an input tree, as locations relative to the input folder: the
\* pool of the specification of the run loop, and the pool of the
\* specification of the output paths.
MainPool == { <<FileA>>, <<FileB>>, <<DirD, FileA>> }
RichPool == { <<FileA>>, <<FileHidden>>, <<FileTwoDots>>,
              <<DirD, FileA>>, <<DirDotted, FileB>> }

\* Texts of the output extension field.
MainExts == { <<>>, <<"j">> }
RichExts == { <<>>, <<"j">>, <<".", "j">>, <<" ", "j", " ">> }

\* Texts of the input folder field.
MainInputs == { <<"i">> }
RichInputs == { <<"i", "/">>, <<".", "/", "i">> }
OutputPath == <<"o">>

Trees(pool) == { t \in SUBSET pool : Cardinality(t) <= MaxFiles }

\* The files at or below the folder at location dir.
FilesBelow(files, dir) ==
    { f \in files : Len(f) > Len(dir) /\ SubSeq(f, 1, Len(dir)) = dir }

\* The files directly in the folder at location dir.
FilesIn(files, dir) == { f \in FilesBelow(files, dir) : Len(f) = Len(dir) + 1 }

Perms(S) ==
    { s \in [1..Cardinality(S) -> S] :
        \A a, b \in 1..Cardinality(S) : a # b => s[a] # s[b] }

\* The orders in which os.walk(top) can yield the files below top, each
\* as os.path.join(dirpath, filename): a folder's own files come before
\* the files of its subfolders, and the files of one folder come together
\* (the trees of the model are at most one folder deep).
WalkFiles(files, top) ==
    LET topLoc == abspath(top)
        below == FilesBelow(files, topLoc)
        relOf(f) == SubSeq(f, Len(topLoc) + 1, Len(f))
        dirOf(f) == SubSeq(f, 1, Len(f) - 1)
        ok(s) ==
            /\ \A a, b \in DOMAIN s : (a < b) => Len(s[a]) <= Len(s[b])
            /\ \A a, b, c \in DOMAIN s :
                   (a < b /\ b < c /\ dirOf(s[a]) = dirOf(s[c]))
                       => dirOf(s[b]) = dirOf(s[a])
    IN  { [k \in DOMAIN s |-> join(top, JoinAll(relOf(s[k])))] :
            s \in { q \in Perms(below) : ok(q) } }

\* The orders of [join(top, f) for f in os.listdir(top) if isfile(...)].
ListFiles(files, top) ==
    LET topLoc == abspath(top)
        here == FilesIn(files, topLoc)
    IN  { [k \in DOMAIN s |-> join(top, s[k][Len(s[k])])] : s \in Perms(here) }

\* The folders above a location.
Ancestors(loc) == { SubSeq(loc, 1, k) : k \in 1..(Len(loc) - 1) }

\* The folders that hold the given files, and the working directory.
DirsOf(files) == { CwdComps } \cup UNION { Ancestors(f) : f \in files }

\* ------------------------------------------------------------- the state
VARIABLES
    settings,         \* MainWindow.get_current_state(): the widgets' values
    fs,               \* the files of the file system, as locations
    ui,               \* "idle": Start is shown; "processing": Pause and Stop are
    uiWait,           \* which handler is inside processing_thread.wait()
    pauseChecked,     \* pause_button.isChecked()
    cur,              \* the slot of MainWindow.file_processor, 0 for None
    pendingFinished,  \* processing_finished signals queued for the UI thread
    fp,               \* the FileProcessor objects, by slot
    hist,             \* what each run has done so far (history)
    dirs,             \* the folders of the file system, as locations
    report,           \* the dictionary scan_input_folder has returned
    dialog,           \* the message box start_processing_confirmation showed last
    controller,       \* ApplicationController: its window, update thread and dialogs
    settings_file,    \* settings.json: whether it is there, and its text
    saved,            \* what was last passed to the save methods, whether a read
                      \* or a write has raised, the file before the last save (history)
    returned,         \* the last call of a SettingsHandler method, its result
    welcome_window,   \* WelcomeWindow: its widgets, timer and validator_thread
    validation_finished,  \* validation_finished signals queued for the UI thread
    reported_valid    \* the keys a validator run has reported valid (history)

\* The settings file and what is known of it.
store == <<settings_file, saved, returned>>

\* The welcome window and its validators.
welcome == <<welcome_window, validation_finished, reported_valid>>

\* What the steps of run() and the handlers of the buttons leave alone.
aside == <<report, dialog, controller, store, welcome>>

\* The main window, its worker and the file system.
window == <<settings, fs, ui, uiWait, pauseChecked, cur, pendingFinished, fp, hist, dirs>>

vars == <<settings, fs, ui, uiWait, pauseChecked, cur, pendingFinished, fp, hist,
          dirs, aside>>

\* The messages of processing_finished.
MsgMissing == [kind |-> "Error: Missing required settings.", a |-> 0, b |-> 0]
MsgListError == [kind |-> "Error reading input folder", a |-> 0, b |-> 0]
MsgNoFiles == [kind |-> "Processing finished: No files to process.", a |-> 0, b |-> 0]
MsgStopped == [kind |-> "Processing stopped by user.", a |-> 0, b |-> 0]
MsgSuccess(n, m) == [kind |-> "Successfully processed", a |-> n, b |-> m]
MsgIssues(n, m) == [kind |-> "Processing finished with issues.", a |-> n, b |-> m]

\* A slot that holds no FileProcessor.
FreeFP ==
    [pc |-> "free", is_running |-> TRUE, is_paused |-> FALSE,
     files_to_process |-> <<>>, i |-> 0, error_log |-> <<>>, success_count |-> 0,
     output_extension |-> <<>>, model |-> "none", processed_content |-> <<>>]

\* generate_content has not been called.
NoCall == [made |-> FALSE, remote |-> "none", result |-> <<>>]

FreeHist ==
    [started |-> <<>>, emitted |-> <<>>, outcome |-> <<>>, written |-> <<>>,
     sinceStop |-> 0, sincePause |-> 0, lastCall |-> "none", apiNoSleep |-> FALSE,
     stopInRun |-> FALSE, stopInPause |-> FALSE, polledAfterStop |-> FALSE,
     stopAtCheck |-> FALSE, pausedAtPoll |-> FALSE, call |-> NoCall,
     before |-> {}, totals |-> {}]

\* FileProcessor.__init__
NewFP == [FreeFP EXCEPT !.pc = "new"]

\* The report before scan_input_folder has been called.
NoReport == [files_found |-> -1]

\* A dictionary without keys, also the text of no file.
EmptyDict == [k \in {} |-> ""]

\* No settings.json yet, and no method of the handler called.
MissingFile == [state |-> "missing", text |-> EmptyDict]
NoState == EmptyDict
NoKey == "None"
StoreIdle ==
    /\ settings_file = MissingFile
    /\ saved = [state |-> NoState, api_key |-> NoKey, faulted |-> FALSE,
                before |-> MissingFile]
    /\ returned = [call |-> "none", value |-> "None"]

\* No ApiKeyValidator.
NoThread == [api_key |-> <<>>, pc |-> "none"]

\* WelcomeWindow.__init__ without a saved key.
WelcomeIdle ==
    /\ welcome_window = [text |-> <<>>, continue_enabled |-> FALSE,
                         status |-> "Enter an API key to begin.",
                         timer_active |-> FALSE, validator_thread |-> NoThread,
                         unreferenced |-> <<>>]
    /\ validation_finished = <<>>
    /\ reported_valid = {}

\* No message box has been shown.
NoDialog == "none"

\* ApplicationController.__init__: no window is shown, the update thread
\* has not been started.
NoController ==
    [shown |-> "start", update_thread |-> "notrunning", pending_runs |-> 0,
     update_found |-> 0, checks |-> 0, dialogs |-> 0]

\* The state outside the run loop and the buttons of the main window.
AsideIdle ==
    /\ report = NoReport /\ dialog = NoDialog /\ controller = NoController
    /\ StoreIdle /\ WelcomeIdle

\* MainWindow.__init__: Start is shown, no worker exists.
WindowIdle ==
    /\ ui = "idle"
    /\ uiWait = "none"
    /\ pauseChecked = FALSE
    /\ cur = 0
    /\ pendingFinished = 0
    /\ fp = [w \in Slots |-> FreeFP]
    /\ hist = [w \in Slots |-> FreeHist]

\* The main window idle, its fields filled in, the input tree on disk.
InitFrom(pool, exts, inputs, outputs, subs, names) ==
    /\ \E tree \in Trees(pool), ip \in inputs, op \in outputs, ext \in exts,
          sub \in subs, mn \in names :
          /\ settings = [input_path |-> ip, output_path |-> op,
                         prompt_text |-> "p", selected_model_name |-> mn,
                         output_extension |-> ext, process_subfolders |-> sub]
          /\ fs = { abspath(ip) \o f : f \in tree }
    /\ dirs = DirsOf(fs)
    /\ WindowIdle
    /\ AsideIdle

InitWith(pool, exts, inputs, subs, names) ==
    InitFrom(pool, exts, inputs, {OutputPath}, subs, names)

Init == InitWith(MainPool, MainExts, MainInputs, BOOLEAN, {"", "m"})

\* ------------------------------------------------------------ api_handler
Texts == { <<"text">>, <<"ERROR:", "text">> }
RemoteOutcomes ==
    { [kind |-> "text", text |-> t] : t \in Texts } \cup { [kind |-> "raise", text |-> <<>>] }

\* GeminiAPIHandler.set_model; created tells whether genai.GenerativeModel
\* returned.
set_model(model_name, created) ==
    IF model_name # "" /\ created THEN model_name ELSE "none"

\* A slip: the remote call is made outside the try; what it raises leaves
\* generate_content with it.
Raised == <<"raise">>
generate_contentUnguarded(model, remote) ==
    IF model = "none" THEN <<"ERROR:", "Model is not set or failed to initialize.">>
    ELSE IF remote.kind = "raise" THEN Raised ELSE remote.text

\* lines 55-56: the remote service is called when a model is set.
CallsRemote(model) == model # "none"

\* GeminiAPIHandler.generate_content, the remote call ending as remote.
generate_content(model, remote) ==
    IF model = "none" THEN <<"ERROR:", "Model is not set or failed to initialize.">>
    ELSE IF remote.kind = "raise"
         THEN <<"ERROR:", "An exception occurred during generation">>
         ELSE remote.text

\* ------------------------------------------------------ FileProcessor.run
\* line 112: total_files
Total(r) == Len(r.files_to_process)
FilePath(r) == r.files_to_process[r.i + 1]

\* A slip: the total sent is the number of files the input folder holds now.
ProgressOnDisk(r) ==
    [current |-> r.i + 1,
     total |-> Cardinality(FilesBelow(fs, abspath(settings.input_path))),
     name |-> r.files_to_process[r.i + 1]]

\* lines 127-128: the arguments of progress_updated.
Progress(r) ==
    [current |-> r.i + 1, total |-> Total(r), name |-> basename(FilePath(r))]

Emit(h, msg, errors) ==
    [h EXCEPT !.emitted = Append(@, [msg |-> msg, errors |-> errors])]

\* A slip: the loop never looks at the stop flag.
StopSeenAtTopNever(r) == FALSE

\* line 118: if not self._is_running
StopSeenAtTop(r) == ~r.is_running
\* A slip: the loop never looks at the pause flag.
PauseSeenNever(r) == FALSE

\* line 121: while self._is_paused
PauseSeen(r) == r.is_paused
\* A slip: the pause wait does not look at the stop flag.
StopSeenInPauseNever(r) == FALSE

\* line 123: if not self._is_running (inside the pause wait)
StopSeenInPause(r) == ~r.is_running
\* line 178: if self._is_running
RunningAtEnd(r) == r.is_running
\* A slip: a stopped run reports an empty list.
StoppedErrorsEmpty(r) == <<>>

\* lines 119 and 124: the list emitted with "Processing stopped by user."
StoppedErrors(r) == r.error_log

\* A slip: a failure leaves the loop (break).
ContinueAbort(r) ==
    [r EXCEPT !.pc = "final", !.i = @ + 1, !.processed_content = <<>>]

\* A slip: a failure takes the same file again.
ContinueRetry(r) == [r EXCEPT !.pc = "loop", !.processed_content = <<>>]

\* `continue` at lines 144 and 173: the for statement takes the next file.
Continue(r) == [r EXCEPT !.pc = "loop", !.i = @ + 1, !.processed_content = <<>>]

\* A slip: only the two folders are looked at.
MissingSettingsPathsOnly(st) == st.input_path = <<>> \/ st.output_path = <<>>

\* line 80: not all([input_path, output_path, system_prompt, model_name])
MissingSettings(st) ==
    \/ st.input_path = <<>> \/ st.output_path = <<>>
    \/ st.prompt_text = "" \/ st.selected_model_name = ""

\* lines 68-115: settings, model, file collection.
RunStart(w) ==
    LET r == fp[w]
        h == hist[w]
        st == settings
    IN  /\ r.pc = "new"
        /\ IF MissingSettings(st)
           THEN /\ fp' = [fp EXCEPT ![w].pc = "done"]
                /\ hist' = [hist EXCEPT ![w] = Emit(h, MsgMissing, <<>>)]
                /\ pendingFinished' = pendingFinished + 1
           ELSE \E created \in BOOLEAN, listed \in BOOLEAN :
                \E files \in (IF st.process_subfolders
                              THEN WalkFiles(fs, st.input_path)
                              ELSE ListFiles(fs, st.input_path)) :
                  LET r1 == [r EXCEPT
                               !.model = set_model(st.selected_model_name, created),
                               !.output_extension = strip(st.output_extension)]
                  IN  IF ~listed
                      THEN /\ fp' = [fp EXCEPT ![w] = [r1 EXCEPT !.pc = "done"]]
                           /\ hist' = [hist EXCEPT ![w] = Emit(h, MsgListError, <<>>)]
                           /\ pendingFinished' = pendingFinished + 1
                      ELSE IF files = <<>>
                      THEN /\ fp' = [fp EXCEPT ![w] =
                                        [r1 EXCEPT !.pc = "done", !.files_to_process = files]]
                           /\ hist' = [hist EXCEPT ![w] = Emit(h, MsgNoFiles, <<>>)]
                           /\ pendingFinished' = pendingFinished + 1
                      ELSE /\ fp' = [fp EXCEPT ![w] =
                                        [r1 EXCEPT !.pc = "loop", !.files_to_process = files]]
                           /\ hist' = [hist EXCEPT ![w].before = fs]
                           /\ UNCHANGED pendingFinished
        /\ UNCHANGED <<aside, dirs, settings, fs, ui, uiWait, pauseChecked, cur>>

\* lines 117-120: the for statement and the stop check of an iteration.
LoopTop(w) ==
    LET r == fp[w]
        h == [hist[w] EXCEPT !.stopAtCheck = ~r.is_running]
    IN  /\ r.pc = "loop"
        /\ IF r.i >= Total(r)
           THEN /\ fp' = [fp EXCEPT ![w].pc = "final"]
                /\ UNCHANGED <<hist, pendingFinished>>
           ELSE IF StopSeenAtTop(r)
           THEN /\ fp' = [fp EXCEPT ![w].pc = "done"]
                /\ hist' = [hist EXCEPT ![w] = Emit(h, MsgStopped, StoppedErrors(r))]
                /\ pendingFinished' = pendingFinished + 1
           ELSE /\ fp' = [fp EXCEPT ![w].pc = "chk_pause"]
                /\ hist' = [hist EXCEPT ![w] = h]
                /\ UNCHANGED pendingFinished
        /\ UNCHANGED <<aside, dirs, settings, fs, ui, uiWait, pauseChecked, cur>>

\* line 121: the condition of the pause wait.
CheckPaused(w) ==
    LET r == fp[w]
    IN  /\ r.pc = "chk_pause"
        /\ fp' = [fp EXCEPT ![w].pc = IF PauseSeen(r) THEN "sleep" ELSE "progress"]
        /\ hist' = [hist EXCEPT ![w].pausedAtPoll = r.is_paused]
        /\ UNCHANGED <<aside, dirs, settings, fs, ui, uiWait, pauseChecked, cur, pendingFinished>>

\* lines 122-125: one sleep of the pause wait and the stop check after it.
PauseSleep(w) ==
    LET r == fp[w]
        h == [hist[w] EXCEPT !.polledAfterStop = hist[w].stopInPause,
                             !.stopAtCheck = ~r.is_running]
    IN  /\ r.pc = "sleep"
        /\ IF StopSeenInPause(r)
           THEN /\ fp' = [fp EXCEPT ![w].pc = "done"]
                /\ hist' = [hist EXCEPT ![w] = Emit(h, MsgStopped, StoppedErrors(r))]
                /\ pendingFinished' = pendingFinished + 1
           ELSE /\ fp' = [fp EXCEPT ![w].pc = "chk_pause"]
                /\ hist' = [hist EXCEPT ![w] = h]
                /\ UNCHANGED pendingFinished
        /\ UNCHANGED <<aside, dirs, settings, fs, ui, uiWait, pauseChecked, cur>>

\* lines 127-128: progress_updated.emit(i + 1, total_files, name).
EmitProgress(w) ==
    LET r == fp[w]
        h == hist[w]
    IN  /\ r.pc = "progress"
        /\ fp' = [fp EXCEPT ![w].pc = "read"]
        /\ hist' = [hist EXCEPT ![w] =
                      [h EXCEPT !.started = Append(@, FilePath(r)),
                                !.totals = @ \cup { Progress(r).total },
                                !.sinceStop = IF r.is_running THEN @ ELSE @ + 1,
                                !.sincePause = IF r.is_paused /\ r.is_running
                                               THEN @ + 1 ELSE @]]
        /\ UNCHANGED <<aside, dirs, settings, fs, ui, uiWait, pauseChecked, cur, pendingFinished>>

\* The entry of error_log for the current file.
ErrorEntry(r, detail) == [file |-> basename(FilePath(r)), detail |-> detail]
FsError == <<"A file system or other critical error occurred">>

\* lines 131-132 (and 169-173 when open or read raises).
ReadFile(w) ==
    LET r == fp[w]
        h == hist[w]
    IN  /\ r.pc = "read"
        /\ \E ok \in BOOLEAN :
             IF ok
             THEN /\ fp' = [fp EXCEPT ![w].pc = "api"]
                  /\ UNCHANGED hist
             ELSE /\ fp' = [fp EXCEPT ![w] =
                              Continue([r EXCEPT !.error_log =
                                          Append(@, ErrorEntry(r, FsError))])]
                  /\ hist' = [hist EXCEPT ![w].outcome = Append(@, "read_fail")]
        /\ UNCHANGED <<aside, dirs, settings, fs, ui, uiWait, pauseChecked, cur, pendingFinished>>

\* lines 135-144: the API call and the test of its result.  The history
\* notes the calls that reach the remote service (the model is set).
CallApi(w) ==
    LET r == fp[w]
        h == IF r.model = "none" THEN hist[w]
             ELSE [hist[w] EXCEPT !.apiNoSleep = @ \/ hist[w].lastCall = "noSleep",
                                  !.lastCall = "noSleep"]
    IN  /\ r.pc = "api"
        /\ \E remote \in RemoteOutcomes :
             LET processed_content == generate_content(r.model, remote)
                 truth == IF r.model # "none" /\ remote.kind = "text"
                          THEN "api_errtext" ELSE "api_fail"
                 call == [made |-> TRUE,
                          remote |-> IF CallsRemote(r.model) THEN remote.kind ELSE "none",
                          result |-> processed_content]
             IN  IF startswith(processed_content, <<"ERROR:">>)
                 THEN /\ fp' = [fp EXCEPT ![w] =
                                  Continue([r EXCEPT !.error_log =
                                      Append(@, ErrorEntry(r, processed_content))])]
                      /\ hist' = [hist EXCEPT ![w] =
                                    [h EXCEPT !.outcome = Append(@, truth),
                                              !.call = call]]
                 ELSE /\ fp' = [fp EXCEPT ![w] =
                                  [r EXCEPT !.pc = "write",
                                            !.processed_content = processed_content]]
                      /\ hist' = [hist EXCEPT ![w] = [h EXCEPT !.call = call]]
        /\ UNCHANGED <<aside, dirs, settings, fs, ui, uiWait, pauseChecked, cur, pendingFinished>>

\* lines 150-152: the extension with its leading dot.
DottedExtension(output_extension) ==
    IF output_extension # <<>> /\ ~startswith(output_extension, <<".">>)
    THEN <<".">> \o output_extension
    ELSE output_extension

\* lines 147-155: final_relative_path.
FinalRelativePath(file_path, input_path, output_extension) ==
    LET relative_path == relpath(file_path, input_path)
        base_name == splitext(relative_path)[1]
    IN  IF output_extension # <<>>
        THEN base_name \o DottedExtension(output_extension)
        ELSE relative_path

\* lines 147-167 (and 169-173 when makedirs, open or write raises: the
\* folders of line 160 are then made or not), then line 175.
WriteOutput(w) ==
    LET r == fp[w]
        h == hist[w]
        output_file_path ==
            join(settings.output_path,
                 FinalRelativePath(FilePath(r), settings.input_path, r.output_extension))
        r1 == [r EXCEPT !.output_extension = DottedExtension(@)]
    IN  /\ r.pc = "write"
        /\ \E ok \in BOOLEAN :
             IF ok
             THEN /\ fs' = fs \cup { abspath(output_file_path) }
                  /\ dirs' = dirs \cup Ancestors(abspath(output_file_path))
                  /\ fp' = [fp EXCEPT ![w] =
                              IF r.i < Total(r) - 1
                              THEN [r1 EXCEPT !.pc = "delay", !.success_count = @ + 1,
                                              !.processed_content = <<>>]
                              ELSE [Continue(r1) EXCEPT !.success_count = @ + 1]]
                  /\ hist' = [hist EXCEPT ![w] =
                                [h EXCEPT !.outcome = Append(@, "ok"),
                                          !.written = Append(@,
                                              [src |-> FilePath(r),
                                               dst |-> output_file_path,
                                               made |-> dirname(output_file_path)])]]
             ELSE /\ fs' = fs
                  /\ \E made \in BOOLEAN :
                       dirs' = IF made
                               THEN dirs \cup Ancestors(abspath(output_file_path))
                               ELSE dirs
                  /\ fp' = [fp EXCEPT ![w] =
                              Continue([r1 EXCEPT !.error_log =
                                          Append(@, ErrorEntry(r, FsError))])]
                  /\ hist' = [hist EXCEPT ![w].outcome = Append(@, "write_fail")]
        /\ UNCHANGED <<aside, settings, ui, uiWait, pauseChecked, cur, pendingFinished>>

\* line 176: time.sleep(processing_delay), then the next iteration.
Delay(w) ==
    LET r == fp[w]
    IN  /\ r.pc = "delay"
        /\ fp' = [fp EXCEPT ![w].pc = "loop", ![w].i = @ + 1]
        /\ hist' = [hist EXCEPT ![w].lastCall = IF @ = "none" THEN "none" ELSE "slept"]
        /\ UNCHANGED <<aside, dirs, settings, fs, ui, uiWait, pauseChecked, cur, pendingFinished>>

\* A slip: the summary does not look at the error log.
SummaryMessageAlwaysSuccess(r) == MsgSuccess(r.success_count, Total(r))

\* lines 179-183: summary_message
SummaryMessage(r) ==
    IF r.error_log = <<>>
    THEN MsgSuccess(r.success_count, Total(r))
    ELSE MsgIssues(r.success_count, Len(r.error_log))

\* lines 178-184: the summary, and the return of run().
Final(w) ==
    LET r == fp[w]
        h == hist[w]
    IN  /\ r.pc = "final"
        /\ fp' = [fp EXCEPT ![w].pc = "done"]
        /\ IF RunningAtEnd(r)
           THEN /\ hist' = [hist EXCEPT ![w] =
                              Emit(h, SummaryMessage(r), r.error_log)]
                /\ pendingFinished' = pendingFinished + 1
           ELSE UNCHANGED <<hist, pendingFinished>>
        /\ UNCHANGED <<aside, dirs, settings, fs, ui, uiWait, pauseChecked, cur>>

\* ------------------------------------------------------ scan_input_folder
FileUpper == <<"b", ".", "T">>
FileX == <<"c", ".", "x">>
DirE == <<"e">>

\* Files of an input tree for the scan, relative to the input folder, and
\* the folders of such a tree that hold nothing.
ScanPool == { <<FileA>>, <<FileUpper>>, <<FileB>>, <<FileHidden>>,
              <<DirD, FileA>>, <<DirD, FileX>> }
ScanEmptyDirs == { <<DirE>> }
ScanInputs == { <<"i">>, <<"i", "/">> }

\* What stands at a path: a folder, nothing, or a file; for the output path
\* a folder that is empty, holds a file or holds a folder.
InputKinds == { "folder", "missing", "notdir" }
OutputKinds == { "missing", "empty", "file", "folder", "notdir" }

\* str.lower(), over the letters of the model
lower(s) ==
    [k \in DOMAIN s |-> IF s[k] = "T" THEN "t" ELSE IF s[k] = "X" THEN "x" ELSE s[k]]

\* os.path.isdir(path)
isdir(folders, path) == path # <<>> /\ abspath(path) \in folders

\* os.scandir(path): the entries of the folder, files and folders alike
scandir(files, folders, path) ==
    { e \in files \cup folders :
        /\ Len(e) = Len(abspath(path)) + 1
        /\ SubSeq(e, 1, Len(e) - 1) = abspath(path) }

\* os.walk(top): one entry for top and for every folder below it, dirpath
\* being top itself or top joined with the folder's path below top.
walk(files, folders, top) ==
    LET topLoc == abspath(top)
        below == { d \in folders :
                     Len(d) >= Len(topLoc) /\ SubSeq(d, 1, Len(topLoc)) = topLoc }
    IN  { [dirpath |-> IF d = topLoc THEN top
                       ELSE join(top, JoinAll(SubSeq(d, Len(topLoc) + 1, Len(d)))),
           filenames |-> { f[Len(f)] : f \in FilesIn(files, d) }] : d \in below }

\* line 40: if dirpath != input_path
IsSubfolder(dirpath, input_path) == dirpath # input_path

\* A slip: the files of every folder are counted.
CountedAlways(dirpath, input_path, process_subfolders) == TRUE

\* lines 44-45: the folders whose files are counted.
Counted(dirpath, input_path, process_subfolders) ==
    ~(~process_subfolders /\ dirpath # input_path)

\* A slip: extensions are compared as they are written.
FormatCaseSensitive(filename) ==
    LET ext == splitext(filename)[2]
    IN  IF ext # <<>> THEN ext ELSE <<".no_extension">>

\* lines 49-50: the format of a file name.
Format(filename) ==
    LET ext == lower(splitext(filename)[2])
    IN  IF ext # <<>> THEN ext ELSE <<".no_extension">>

\* A slip: only the files of the output folder are looked at.
OutputHasFilesOnly(files, folders, output_path) ==
    isdir(folders, output_path) /\ scandir(files, {}, output_path) # {}

\* line 53: os.path.isdir(output_path) and any(os.scandir(output_path))
OutputHasFiles(files, folders, output_path) ==
    isdir(folders, output_path) /\ scandir(files, folders, output_path) # {}

\* A slip: the warning does not look at the check box.
SubfolderWarningAlways(subfolders_found, process_subfolders) == subfolders_found

\* line 57: if report["subfolders_found"] and not process_subfolders
SubfolderWarning(subfolders_found, process_subfolders) ==
    subfolders_found /\ ~process_subfolders

\* lines 47-48: files_found += 1 for every file name of the counted folders.
RECURSIVE FilesFound(_)
FilesFound(entries) ==
    IF entries = {} THEN 0
    ELSE LET e == CHOOSE x \in entries : TRUE
         IN  Cardinality(e.filenames) + FilesFound(entries \ {e})

WarnInvalid == "Input path is not a valid folder."
WarnSubfolders == "Input folder contains subfolders. They will be ignored."
WarnFormats == "Multiple file formats found"
WarnOutput == "Output folder is not empty. Existing files may be overwritten."
WarnNoFiles == "No files found in the input folder."

\* The warning, when its condition holds.
When(cond, warning) == IF cond THEN <<warning>> ELSE <<>>

\* FileProcessor.scan_input_folder, lines 26-64
scan_input_folder(files, folders, input_path, output_path, process_subfolders) ==
    IF ~isdir(folders, input_path)
    THEN [files_found |-> 0, subfolders_found |-> FALSE, formats |-> {},
          output_has_files |-> FALSE, warnings |-> <<WarnInvalid>>]
    ELSE LET walked == walk(files, folders, input_path)
             subfolders_found == \E e \in walked : IsSubfolder(e.dirpath, input_path)
             counted == { e \in walked :
                            Counted(e.dirpath, input_path, process_subfolders) }
             files_found == FilesFound(counted)
             formats == UNION { { Format(n) : n \in e.filenames } : e \in counted }
             output_has_files == OutputHasFiles(files, folders, output_path)
         IN  [files_found |-> files_found, subfolders_found |-> subfolders_found,
              formats |-> formats, output_has_files |-> output_has_files,
              warnings |->
                  When(SubfolderWarning(subfolders_found, process_subfolders),
                       WarnSubfolders)
                  \o When(Cardinality(formats) > 1, WarnFormats)
                  \o When(output_has_files, WarnOutput)
                  \o When(files_found = 0, WarnNoFiles)]

\* ------------------------------------------------------------ MainWindow
\* FileProcessor.stop
stop(r) == [r EXCEPT !.is_running = FALSE]

\* FileProcessor.toggle_pause
toggle_pause(r, paused) == [r EXCEPT !.is_paused = paused]

\* What the history keeps of a call of stop() on a worker in state r.
NoteStop(r, h) ==
    [h EXCEPT !.stopInRun = @ \/ r.pc # "done",
              !.stopInPause = @ \/ (/\ r.is_running
                                    /\ \/ r.pc = "sleep"
                                       \/ r.pc = "chk_pause" /\ r.is_paused)]

\* line 306: report["files_found"] of the scan of the two folders.
ScanFilesFound(files, folders, input_path, output_path, process_subfolders) ==
    scan_input_folder(files, folders, input_path, output_path,
                      process_subfolders).files_found

\* A slip: stop_processing does not wait for the thread.
ThreadFinishedAlways(r) == TRUE

\* processing_thread.wait() returns: run() has returned and the thread,
\* told to quit, has left its event loop.
ThreadFinished(r) == r.pc = "done"

\* lines 314-322: a new FileProcessor in a new thread.  The processors
\* that have returned and are no longer referenced are collected.
start_processing ==
    LET kept == [w \in Slots |-> IF fp[w].pc = "done" THEN FreeFP ELSE fp[w]]
        keptH == [w \in Slots |-> IF fp[w].pc = "done" THEN FreeHist ELSE hist[w]]
        free == { w \in Slots : kept[w].pc = "free" }
    IN  /\ free # {}
        /\ LET w == CHOOSE x \in free : \A y \in free : x <= y
           IN  /\ fp' = [kept EXCEPT ![w] = NewFP]
               /\ hist' = [keptH EXCEPT ![w] = FreeHist]
               /\ cur' = w
        /\ ui' = "processing"
        /\ UNCHANGED <<controller, report, store, welcome, dirs, settings, fs, uiWait, pauseChecked,
                       pendingFinished>>

\* A slip: two folders are the same when they are written the same.
SameFolderAsWritten(input_path, output_path) ==
    input_path # <<>> /\ output_path # <<>> /\ input_path = output_path

\* lines 301-305: both paths are given and are one absolute path.
SameFolder(input_path, output_path) ==
    /\ input_path # <<>>
    /\ output_path # <<>>
    /\ abspath(input_path) = abspath(output_path)

DialogPathError == "Path Error"
DialogNoFiles == "No Files Found"
DialogPreflight == "Pre-flight Check"

\* The click ends in a message box and starts nothing.
Refuse(box) == dialog' = box /\ UNCHANGED <<window, controller, report, store, welcome>>

\* lines 299-312: the Start button.  proceed is the answer to the
\* pre-flight dialog, which is shown when the scan has warnings.
StartClick ==
    /\ ui = "idle"
    /\ uiWait = "none"
    /\ pendingFinished <= MaxStale
    /\ LET scan == scan_input_folder(fs, dirs, settings.input_path,
                                     settings.output_path, settings.process_subfolders)
       IN  IF SameFolder(settings.input_path, settings.output_path)
           THEN Refuse(DialogPathError)
           ELSE IF ScanFilesFound(fs, dirs, settings.input_path, settings.output_path,
                                  settings.process_subfolders) = 0
           THEN Refuse(DialogNoFiles)
           ELSE IF scan.warnings # <<>>
           THEN \E proceed \in BOOLEAN :
                    IF proceed
                    THEN start_processing /\ dialog' = DialogPreflight
                    ELSE Refuse(DialogPreflight)
           ELSE start_processing /\ dialog' = NoDialog

\* lines 329-331: the Pause button is toggled.
PauseToggle ==
    /\ ui = "processing"
    /\ uiWait = "none"
    /\ pauseChecked' = ~pauseChecked
    /\ IF cur # 0
       THEN /\ fp' = [fp EXCEPT ![cur] = toggle_pause(@, pauseChecked')]
            /\ hist' = [hist EXCEPT ![cur].sincePause = IF pauseChecked' THEN 0 ELSE @]
       ELSE UNCHANGED <<fp, hist>>
    /\ UNCHANGED <<aside, dirs, settings, fs, ui, uiWait, cur, pendingFinished>>

\* lines 325-326 up to wait(): stop(), quit(), and the UI thread blocks.
BeginStop(why) ==
    /\ IF cur # 0
       THEN /\ fp' = [fp EXCEPT ![cur] = stop(@)]
            /\ hist' = [hist EXCEPT ![cur] = NoteStop(fp[cur], @)]
       ELSE UNCHANGED <<fp, hist>>
    /\ uiWait' = why

\* line 324: the Stop button.
StopClick ==
    /\ ui = "processing"
    /\ uiWait = "none"
    /\ BeginStop("stop")
    /\ UNCHANGED <<aside, dirs, settings, fs, ui, pauseChecked, cur, pendingFinished>>

\* line 336: the queued processing_finished signal reaches the window.
OnProcessingFinished ==
    /\ uiWait = "none"
    /\ pendingFinished > 0
    /\ pendingFinished' = pendingFinished - 1
    /\ BeginStop("finished")
    /\ UNCHANGED <<aside, dirs, settings, fs, ui, pauseChecked, cur>>

\* lines 326-327 from the return of wait(): the controls are reset;
\* un-checking the Pause button calls toggle_pause_processing(False).
\* After on_processing_finished the message box follows (lines 338-349).
StopProcessingReturn ==
    /\ uiWait # "none"
    /\ cur # 0 => ThreadFinished(fp[cur])
    /\ uiWait' = "none"
    /\ ui' = "idle"
    /\ pauseChecked' = FALSE
    /\ IF pauseChecked /\ cur # 0
       THEN fp' = [fp EXCEPT ![cur] = toggle_pause(@, FALSE)]
       ELSE UNCHANGED fp
    /\ UNCHANGED <<aside, dirs, settings, fs, cur, pendingFinished, hist>>

\* ------------------------------------------------------ the specifications
\* The steps of run() outside the pause wait.
Unpaused(w) ==
    \/ RunStart(w)
    \/ LoopTop(w)
    \/ CheckPaused(w)
    \/ EmitProgress(w)
    \/ ReadFile(w)
    \/ CallApi(w)
    \/ WriteOutput(w)
    \/ Delay(w)
    \/ Final(w)

Next ==
    \/ StartClick
    \/ PauseToggle
    \/ StopClick
    \/ OnProcessingFinished
    \/ StopProcessingReturn
    \/ \E w \in Slots : Unpaused(w) \/ PauseSleep(w)

Spec == Init /\ [][Next]_vars

\* The runs in which the user presses no button but Start (the pause wait
\* is then never entered), over the larger pool of file names, extensions
\* and input folder texts, subfolders being processed.
InitPaths == InitWith(RichPool, RichExts, RichInputs, {TRUE}, {"m"})

NextPaths ==
    \/ StartClick
    \/ OnProcessingFinished
    \/ StopProcessingReturn
    \/ \E w \in Slots : Unpaused(w)

SpecPaths == InitPaths /\ [][NextPaths]_vars

\* ------------------------------------------- one run, folders that overlap
FileAX == <<"a", ".", "x">>
DirI == <<"i">>
DirO == <<"o">>

\* Files of an input tree, two of them differing in their extension only,
\* two of them in folders named as the folders of the fields are.
ClashPool == { <<FileA>>, <<FileAX>>, <<DirO, FileA>>, <<DirI, FileA>> }

\* Texts of the folder fields: apart, the output folder inside the input
\* folder, the input folder inside the output folder.
ClashInputs == { <<"i">>, <<"o", "/", "i">> }
ClashOutputs == { <<"o">>, <<"i", "/", "o">> }

InitClash == InitFrom(ClashPool, MainExts, ClashInputs, ClashOutputs, {TRUE}, {"m"})

\* Start is clicked once: the files a run writes below the input folder
\* are not taken as the input of a further run.
StartOnce == cur = 0 /\ StartClick

NextClash ==
    \/ StartOnce
    \/ OnProcessingFinished
    \/ StopProcessingReturn
    \/ \E w \in Slots : Unpaused(w)

SpecClash == InitClash /\ [][NextClash]_vars

\* ------------------------------------------ run() with settings of any kind
\* A FileProcessor made with settings of which any of the four required
\* ones can be empty, its thread started.
InitRun ==
    /\ \E tree \in Trees(MainPool), ip \in { <<>>, <<"i">> },
          op \in { <<>>, OutputPath }, pt \in { "", "p" }, mn \in { "", "m" },
          sub \in BOOLEAN :
          /\ settings = [input_path |-> ip, output_path |-> op,
                         prompt_text |-> pt, selected_model_name |-> mn,
                         output_extension |-> <<>>, process_subfolders |-> sub]
          /\ fs = { abspath(<<"i">>) \o f : f \in tree }
    /\ dirs = DirsOf(fs)
    /\ ui = "processing"
    /\ uiWait = "none"
    /\ pauseChecked = FALSE
    /\ cur = 1
    /\ pendingFinished = 0
    /\ fp = [w \in Slots |-> IF w = 1 THEN NewFP ELSE FreeFP]
    /\ hist = [w \in Slots |-> FreeHist]
    /\ AsideIdle

NextRun ==
    \/ OnProcessingFinished
    \/ StopProcessingReturn
    \/ \E w \in Slots : Unpaused(w)

SpecRun == InitRun /\ [][NextRun]_vars

\* ------------------------------------------------ one run, with scheduling
\* One run with the Pause and Stop buttons.  The thread of the worker is
\* scheduled: a step of run() that can be taken is taken, each file
\* operation, API call and sleep returning; the event loop of the window
\* handles a queued signal, and wait() returns once the thread has
\* finished.  The user is free to click or not.
InitOnce == InitWith(MainPool, { <<>> }, MainInputs, BOOLEAN, { "m" })

NextOnce ==
    \/ StartOnce
    \/ PauseToggle
    \/ StopClick
    \/ OnProcessingFinished
    \/ StopProcessingReturn
    \/ \E w \in Slots : Unpaused(w) \/ PauseSleep(w)

FairOnce ==
    /\ \A w \in Slots : WF_vars(Unpaused(w) \/ PauseSleep(w))
    /\ WF_vars(OnProcessingFinished)
    /\ WF_vars(StopProcessingReturn)

SpecOnceFair == InitOnce /\ [][NextOnce]_vars /\ FairOnce

\* ------------------------------------------- Start, folders of every kind
\* The input folder is not given, is apart from the output folder, or is
\* the output folder written in another way.
StartInputs == { <<>>, <<"i">>, <<"o", "/">> }
StartOutputs == { <<"o">> }

InitStart == InitFrom(MainPool, { <<>> }, StartInputs, StartOutputs, BOOLEAN, { "m" })

NextStart ==
    \/ StartClick
    \/ PauseToggle
    \/ StopClick
    \/ OnProcessingFinished
    \/ StopProcessingReturn
    \/ \E w \in Slots : Unpaused(w) \/ PauseSleep(w)

SpecStart == InitStart /\ [][NextStart]_vars

\* ------------------------------------------- the pre-flight scan, alone
\* The scan is called on a file system in which the input path and the
\* output path are of every kind.
InitScan ==
    /\ \E tree \in Trees(ScanPool), empties \in SUBSET ScanEmptyDirs,
          ip \in ScanInputs, inKind \in InputKinds, outKind \in OutputKinds,
          sub \in BOOLEAN :
          LET inLoc == abspath(ip)
              outLoc == abspath(OutputPath)
              inFiles == IF inKind = "folder" THEN { inLoc \o f : f \in tree }
                         ELSE IF inKind = "notdir" THEN { inLoc } ELSE {}
              inDirs == IF inKind = "folder"
                        THEN { inLoc } \cup { inLoc \o d : d \in empties } ELSE {}
              outFiles == IF outKind = "file" THEN { outLoc \o <<FileA>> }
                          ELSE IF outKind = "notdir" THEN { outLoc } ELSE {}
              outDirs == IF outKind \in { "empty", "file" } THEN { outLoc }
                         ELSE IF outKind = "folder" THEN { outLoc, outLoc \o <<DirD>> }
                         ELSE {}
          IN  /\ inKind # "folder" => (tree = {} /\ empties = {})
              /\ settings = [input_path |-> ip, output_path |-> OutputPath,
                             prompt_text |-> "p", selected_model_name |-> "m",
                             output_extension |-> <<>>, process_subfolders |-> sub]
              /\ fs = inFiles \cup outFiles
              /\ dirs = DirsOf(fs) \cup inDirs \cup outDirs
    /\ WindowIdle
    /\ report = NoReport
    /\ dialog = NoDialog
    /\ controller = NoController
    /\ StoreIdle
    /\ WelcomeIdle

\* line 305: report = FileProcessor.scan_input_folder(...)
ScanInputFolder ==
    /\ report = NoReport
    /\ report' = scan_input_folder(fs, dirs, settings.input_path,
                                   settings.output_path, settings.process_subfolders)
    /\ UNCHANGED <<window, controller, dialog, store, welcome>>

NextScan == ScanInputFolder

SpecScan == InitScan /\ [][NextScan]_vars

\* -------------------------------------------------------- SettingsHandler
\* MainWindow.get_current_state, for the values of three of the widgets.
get_current_state(prompt, delay, subfolders) ==
    [prompt_text |-> prompt, input_path |-> <<"i">>, output_path |-> OutputPath,
     output_extension |-> <<"j">>, processing_delay |-> delay,
     selected_model_display |-> "M", selected_model_name |-> "m",
     thinking_mode |-> FALSE, process_subfolders |-> subfolders]

Prompts == { "", "p" }
Delays == { 0, 10 }
WindowStates ==
    { get_current_state(p, d, b) : p \in Prompts, d \in Delays, b \in BOOLEAN }
ApiKeys == { "k1", "k2" }

\* The JSON type json.dump gives the value of a key: the type of the
\* Python value, which each key of the file always holds with one type.
JsonType(k) ==
    IF k \in { "thinking_mode", "process_subfolders" } THEN "boolean"
    ELSE IF k = "processing_delay" THEN "number"
    ELSE "string"

\* json.dump of one value, json.load of one value
Encode(k, v) ==
    IF JsonType(k) = "boolean" THEN (IF v THEN "true" ELSE "false")
    ELSE IF JsonType(k) = "number" THEN <<"digits", v>>
    ELSE <<"quote", v, "quote">>
Decode(k, t) ==
    IF JsonType(k) = "boolean" THEN t = "true"
    ELSE t[2]

\* json.dump(settings, f), json.load(f)
json_dump(d) == [k \in DOMAIN d |-> Encode(k, d[k])]
json_load(text) == [k \in DOMAIN text |-> Decode(k, text[k])]

\* lines 27-36: _load_all_settings; readable tells whether open and read
\* raise no IOError.
load_all_settings(file, readable) ==
    IF file.state = "missing" THEN EmptyDict
    ELSE IF ~readable \/ file.state = "corrupt" THEN EmptyDict
    ELSE json_load(file.text)

\* How a write of the file ends: written; IOError from open, the file being
\* as before; IOError from the write after open has emptied the file.
WriteOutcomes == { "written", "unopened", "partial" }

\* lines 38-44: _save_all_settings
save_all_settings(file, d, outcome) ==
    IF outcome = "written" THEN [state |-> "json", text |-> json_dump(d)]
    ELSE IF outcome = "unopened" THEN file
    ELSE [state |-> "corrupt", text |-> EmptyDict]

\* A slip: the key is written without the settings read before.
only_api_key(d, api_key) == [k \in { "api_key" } |-> api_key]

\* line 49: settings["api_key"] = api_key
with_api_key(d, api_key) ==
    [k \in DOMAIN d \cup { "api_key" } |-> IF k = "api_key" THEN api_key ELSE d[k]]

\* A slip: the values already stored win (dict.setdefault).
updateKeepOld(d, state) ==
    [k \in DOMAIN d \cup DOMAIN state |-> IF k \in DOMAIN d THEN d[k] ELSE state[k]]

\* line 64: settings.update(state)
update(d, state) ==
    [k \in DOMAIN d \cup DOMAIN state |-> IF k \in DOMAIN state THEN state[k] ELSE d[k]]

\* line 72: settings.pop("api_key", None)
pop_api_key(d) == [k \in DOMAIN d \ { "api_key" } |-> d[k]]

\* line 56: settings.get("api_key")
get_api_key(d) == IF "api_key" \in DOMAIN d THEN d["api_key"] ELSE NoKey

\* Whether a read of the file, or a write of it, has raised.
Faults(file, readable, outcome) ==
    \/ file.state # "missing" /\ ~readable
    \/ outcome # "written"

\* lines 46-51: save_api_key
SaveApiKey ==
    \E api_key \in ApiKeys, readable \in BOOLEAN, outcome \in WriteOutcomes :
        LET d == with_api_key(load_all_settings(settings_file, readable), api_key)
        IN  /\ settings_file' = save_all_settings(settings_file, d, outcome)
            /\ saved' = [saved EXCEPT
                            !.api_key = api_key,
                            !.before = settings_file,
                            !.faulted = @ \/ Faults(settings_file, readable, outcome)]
            /\ returned' = [call |-> "save_api_key", value |-> "None"]
            /\ UNCHANGED <<window, controller, report, dialog, welcome>>

\* lines 53-58: load_api_key
LoadApiKey ==
    \E readable \in BOOLEAN :
        /\ returned' = [call |-> "load_api_key",
                        value |-> get_api_key(load_all_settings(settings_file, readable))]
        /\ saved' = [saved EXCEPT
                        !.faulted = @ \/ Faults(settings_file, readable, "written")]
        /\ UNCHANGED <<window, controller, report, dialog, welcome, settings_file>>

\* lines 60-66: save_main_window_state
SaveMainWindowState ==
    \E state \in WindowStates, readable \in BOOLEAN, outcome \in WriteOutcomes :
        LET d == update(load_all_settings(settings_file, readable), state)
        IN  /\ settings_file' = save_all_settings(settings_file, d, outcome)
            /\ saved' = [saved EXCEPT
                            !.state = state,
                            !.before = settings_file,
                            !.faulted = @ \/ Faults(settings_file, readable, outcome)]
            /\ returned' = [call |-> "save_main_window_state", value |-> "None"]
            /\ UNCHANGED <<window, controller, report, dialog, welcome>>

\* lines 68-74: load_main_window_state
LoadMainWindowState ==
    \E readable \in BOOLEAN :
        /\ returned' = [call |-> "load_main_window_state",
                        value |-> pop_api_key(load_all_settings(settings_file, readable))]
        /\ saved' = [saved EXCEPT
                        !.faulted = @ \/ Faults(settings_file, readable, "written")]
        /\ UNCHANGED <<window, controller, report, dialog, welcome, settings_file>>

\* The handler is made for a file that is missing or that an earlier
\* write has left unreadable.
InitSettings ==
    /\ settings = [input_path |-> <<"i">>, output_path |-> OutputPath,
                   prompt_text |-> "p", selected_model_name |-> "m",
                   output_extension |-> <<"j">>, process_subfolders |-> FALSE]
    /\ fs = {}
    /\ dirs = DirsOf(fs)
    /\ WindowIdle
    /\ report = NoReport
    /\ dialog = NoDialog
    /\ controller = NoController
    /\ settings_file \in { MissingFile, [state |-> "corrupt", text |-> EmptyDict] }
    /\ saved = [state |-> NoState, api_key |-> NoKey, faulted |-> FALSE,
                before |-> MissingFile]
    /\ returned = [call |-> "none", value |-> "None"]
    /\ WelcomeIdle

NextSettings ==
    \/ SaveApiKey
    \/ LoadApiKey
    \/ SaveMainWindowState
    \/ LoadMainWindowState

SpecSettings == InitSettings /\ [][NextSettings]_vars

\* ---------------------------------------------------------- WelcomeWindow
\* Texts of the key field, and the key found in the settings at start.
KeyTexts == { <<>>, <<"g">>, <<"g", " ">>, <<"b">> }
SavedKeys == { <<>>, <<"g">> }

\* A slip: the window does not ask whether its validator runs.
isRunningNever(thread) == FALSE

\* QThread.isRunning(): from start() until run() has returned.
isRunning(thread) == thread.pc \in { "started", "emitted" }

\* lines 111-131: start_validation.  Line 129 gives validator_thread a new
\* thread: the thread it held, if that one has not returned, goes on
\* running with no reference of the window to it.
start_validation(win) ==
    IF isRunning(win.validator_thread) THEN win
    ELSE IF strip(win.text) = <<>>
    THEN [win EXCEPT !.status = "Enter an API key to begin."]
    ELSE [win EXCEPT !.status = "Checking key...",
                     !.continue_enabled = FALSE,
                     !.validator_thread = [api_key |-> strip(win.text), pc |-> "started"],
                     !.unreferenced =
                         IF win.validator_thread.pc \in { "started", "emitted" }
                         THEN Append(@, win.validator_thread) ELSE @]

\* lines 104-109: on_text_changed
on_text_changed(win) ==
    [win EXCEPT !.continue_enabled = FALSE, !.status = "...", !.timer_active = TRUE]

\* lines 133-151: on_validation_finished
on_validation_finished(win, is_valid) ==
    IF strip(win.text) # win.validator_thread.api_key THEN win
    ELSE IF is_valid
    THEN [win EXCEPT !.status = "API Key is valid!", !.continue_enabled = TRUE]
    ELSE [win EXCEPT !.status = "Invalid API Key.", !.continue_enabled = FALSE]

\* lines 63-102: the window is made, with the key of the settings if any.
InitWelcome ==
    /\ settings = [input_path |-> <<"i">>, output_path |-> OutputPath,
                   prompt_text |-> "p", selected_model_name |-> "m",
                   output_extension |-> <<"j">>, process_subfolders |-> FALSE]
    /\ fs = {}
    /\ dirs = DirsOf(fs)
    /\ WindowIdle
    /\ report = NoReport
    /\ dialog = NoDialog
    /\ controller = NoController
    /\ StoreIdle
    /\ \E saved_key \in SavedKeys :
         LET fresh == [text |-> <<>>, continue_enabled |-> FALSE,
                       status |-> "Enter an API key to begin.",
                       timer_active |-> FALSE, validator_thread |-> NoThread,
                         unreferenced |-> <<>>]
         IN  welcome_window =
                 IF saved_key # <<>>
                 THEN start_validation(on_text_changed([fresh EXCEPT !.text = saved_key]))
                 ELSE fresh
    /\ validation_finished = <<>>
    /\ reported_valid = {}

\* The user edits the key field: textChanged.
EditText ==
    \E text \in KeyTexts :
        /\ text # welcome_window.text
        /\ welcome_window' = on_text_changed([welcome_window EXCEPT !.text = text])
        /\ UNCHANGED <<window, controller, report, dialog, store, validation_finished, reported_valid>>

\* The debounce timer fires: timeout, connected to start_validation.  A
\* validator is not started while more than MaxStale signals are queued.
DebounceTimeout ==
    /\ welcome_window.timer_active
    /\ Len(validation_finished) <= MaxStale
    /\ welcome_window' = start_validation([welcome_window EXCEPT !.timer_active = FALSE])
    /\ UNCHANGED <<window, controller, report, dialog, store, validation_finished, reported_valid>>

\* lines 26-53: ApiKeyValidator.run emits its result, which is queued for
\* the thread of the window.
ValidatorRun ==
    LET thread == welcome_window.validator_thread
    IN  /\ thread.pc = "started"
        /\ \E is_valid \in BOOLEAN :
             /\ validation_finished' =
                    Append(validation_finished, [api_key |-> thread.api_key,
                                                 is_valid |-> is_valid])
             /\ reported_valid' =
                    IF is_valid THEN reported_valid \cup { thread.api_key }
                    ELSE reported_valid
        /\ welcome_window' = [welcome_window EXCEPT !.validator_thread.pc = "emitted"]
        /\ UNCHANGED <<window, controller, report, dialog, store>>

\* run() has returned: the thread is no longer running.
ValidatorReturn ==
    /\ welcome_window.validator_thread.pc = "emitted"
    /\ welcome_window' = [welcome_window EXCEPT !.validator_thread.pc = "finished"]
    /\ UNCHANGED <<window, controller, report, dialog, store, validation_finished, reported_valid>>

\* The queued validation_finished signal reaches the window.
OnValidationFinished ==
    /\ validation_finished # <<>>
    /\ welcome_window' =
           on_validation_finished(welcome_window, Head(validation_finished).is_valid)
    /\ validation_finished' = Tail(validation_finished)
    /\ UNCHANGED <<window, controller, report, dialog, store, reported_valid>>

NextWelcome ==
    \/ EditText
    \/ DebounceTimeout
    \/ ValidatorRun
    \/ ValidatorReturn
    \/ OnValidationFinished

SpecWelcome == InitWelcome /\ [][NextWelcome]_vars

\* The welcome window with its scheduling: the event loop of the window
\* handles a timeout that is due and a signal that is queued, a validator
\* that was started runs, and each validation call returns.  The user is
\* free to stop editing.
FairWelcome ==
    /\ WF_vars(DebounceTimeout)
    /\ WF_vars(ValidatorRun)
    /\ WF_vars(ValidatorReturn)
    /\ WF_vars(OnValidationFinished)

SpecWelcomeFair == InitWelcome /\ [][NextWelcome]_vars /\ FairWelcome

\* ---------------------------------------------------- ApplicationController
\* The update checks of one launch are counted up to this number.
MaxChecks == 2

ControllerStates == { get_current_state("p", 0, b) : b \in BOOLEAN }

\* QThread.start(): nothing for a thread that runs; a thread that starts
\* emits started, which queues a call of UpdateChecker.run for its loop.
start(c) ==
    IF c.update_thread = "running" THEN c
    ELSE [c EXCEPT !.update_thread = "running", !.pending_runs = @ + 1]

\* lines 45-74: UpdateChecker.run; newer tells whether the version found
\* is above CURRENT_VERSION (a request that fails finds none).
update_checker_run(c, newer) ==
    [c EXCEPT !.pending_runs = @ - 1,
              !.checks = @ + 1,
              !.update_found = IF newer THEN @ + 1 ELSE @]

\* update_thread.quit(); update_thread.wait().  The loop of the thread
\* ends: a queued call of run is made before that (ran) or stays queued.
quit_wait(c, ran, newer) ==
    IF c.update_thread # "running" THEN c
    ELSE IF c.pending_runs > 0 /\ ran
    THEN [update_checker_run(c, newer) EXCEPT !.update_thread = "notrunning"]
    ELSE [c EXCEPT !.update_thread = "notrunning"]

\* lines 101-107: ApplicationController.run
run(c) == [start(c) EXCEPT !.shown = "welcome"]

\* What a call of load_api_key and of load_main_window_state leaves in
\* the history of the handler.
Loaded(call, file, readable) ==
    [call |-> call,
     value |-> IF call = "load_api_key"
               THEN get_api_key(load_all_settings(file, readable))
               ELSE pop_api_key(load_all_settings(file, readable))]

\* main() calls run() on the controller it has made.
ControllerRun ==
    /\ controller.shown = "start"
    /\ controller' = run(controller)
    /\ \E readable \in BOOLEAN :
         /\ returned' = Loaded("load_api_key", settings_file, readable)
         /\ saved' = [saved EXCEPT
                         !.faulted = @ \/ Faults(settings_file, readable, "written")]
    /\ UNCHANGED <<window, report, dialog, welcome, settings_file>>

\* The loop of the update thread makes the queued call of run.
UpdateCheckerRun ==
    /\ controller.update_thread = "running"
    /\ controller.pending_runs > 0
    /\ \E newer \in BOOLEAN : controller' = update_checker_run(controller, newer)
    /\ UNCHANGED <<window, report, dialog, store, welcome>>

\* lines 109-130: the queued update_found signal reaches the controller.
ShowUpdateDialog ==
    /\ controller.shown \in { "welcome", "main" }
    /\ controller.update_found > 0
    /\ \E ran \in BOOLEAN, newer \in BOOLEAN :
         controller' = quit_wait([controller EXCEPT !.update_found = @ - 1,
                                                    !.dialogs = @ + 1], ran, newer)
    /\ UNCHANGED <<window, report, dialog, store, welcome>>

\* lines 156-165 and 142-154: the welcome window submits a key; the key
\* is saved and the main window is shown with the saved state.
HandleApiKeySubmission ==
    /\ controller.shown = "welcome"
    /\ controller' = [controller EXCEPT !.shown = "main"]
    /\ \E api_key \in ApiKeys, readable \in BOOLEAN, outcome \in WriteOutcomes,
          readable2 \in BOOLEAN :
         LET d == with_api_key(load_all_settings(settings_file, readable), api_key)
             file == save_all_settings(settings_file, d, outcome)
         IN  /\ settings_file' = file
             /\ saved' = [saved EXCEPT
                             !.api_key = api_key,
                             !.before = settings_file,
                             !.faulted = \/ @
                                         \/ Faults(settings_file, readable, outcome)
                                         \/ Faults(file, readable2, "written")]
             /\ returned' = Loaded("load_main_window_state", file, readable2)
    /\ UNCHANGED <<window, report, dialog, welcome>>

\* lines 175-180: handle_main_window_close, on a controller c.
CloseMainWindow(c, then) ==
    \E state \in ControllerStates, readable \in BOOLEAN, outcome \in WriteOutcomes,
       ran \in BOOLEAN, newer \in BOOLEAN, readable2 \in BOOLEAN :
        LET d == update(load_all_settings(settings_file, readable), state)
            file == save_all_settings(settings_file, d, outcome)
            closed == quit_wait(c, ran, newer)
        IN  /\ settings_file' = file
            /\ IF then = "run"
               THEN /\ controller' = run(closed)
                    /\ returned' = Loaded("load_api_key", file, readable2)
                    /\ saved' = [saved EXCEPT
                                    !.state = state,
                                    !.before = settings_file,
                                    !.faulted = \/ @
                                                \/ Faults(settings_file, readable, outcome)
                                                \/ Faults(file, readable2, "written")]
               ELSE /\ controller' = [closed EXCEPT !.shown = "closed"]
                    /\ returned' = [call |-> "save_main_window_state", value |-> "None"]
                    /\ saved' = [saved EXCEPT
                                    !.state = state,
                                    !.before = settings_file,
                                    !.faulted = @ \/ Faults(settings_file, readable, outcome)]

\* lines 167-173: 'Change API Key': the main window is closed, which
\* emits closing, and run() is called again.
HandleChangeApiKeyRequest ==
    /\ controller.shown = "main"
    /\ controller.checks + controller.pending_runs < MaxChecks
    /\ CloseMainWindow(controller, "run")
    /\ UNCHANGED <<window, report, dialog, welcome>>

\* The user closes the main window: closeEvent emits closing.
HandleMainWindowClose ==
    /\ controller.shown = "main"
    /\ CloseMainWindow(controller, "exit")
    /\ UNCHANGED <<window, report, dialog, welcome>>

\* One launch: the settings file is missing or holds a key.
InitController ==
    /\ settings = [input_path |-> <<"i">>, output_path |-> OutputPath,
                   prompt_text |-> "p", selected_model_name |-> "m",
                   output_extension |-> <<"j">>, process_subfolders |-> FALSE]
    /\ fs = {}
    /\ dirs = DirsOf(fs)
    /\ WindowIdle
    /\ report = NoReport
    /\ dialog = NoDialog
    /\ controller = NoController
    /\ settings_file \in { MissingFile, [state |-> "corrupt", text |-> EmptyDict] }
    /\ saved = [state |-> NoState, api_key |-> NoKey, faulted |-> FALSE,
                before |-> MissingFile]
    /\ returned = [call |-> "none", value |-> "None"]
    /\ WelcomeIdle

NextController ==
    \/ ControllerRun
    \/ UpdateCheckerRun
    \/ ShowUpdateDialog
    \/ HandleApiKeySubmission
    \/ HandleChangeApiKeyRequest
    \/ HandleMainWindowClose

SpecController == InitController /\ [][NextController]_vars

\* ------------------------------------------------------------ properties
Executing(w) == fp[w].pc \notin {"free", "done"}
InFile(w) == fp[w].pc \in {"progress", "read", "api", "write"}

\* The files of run w whose attempt has ended in a failure, in the order
\* of their attempts.
FailedFiles(w) ==
    LET h == hist[w]
        Failed(k) == h.outcome[k] # "ok"
        idx == SelectSeq([k \in 1..Len(h.outcome) |-> k], Failed)
    IN  [j \in DOMAIN idx |-> h.started[idx[j]]]

\* errors holds one entry for each failed file of run w, in that order.
ListsFailures(errors, w) ==
    /\ Len(errors) = Len(FailedFiles(w))
    /\ \A j \in DOMAIN errors : errors[j].file = basename(FailedFiles(w)[j])

\* C1: once stop() has been called, run() starts at most one further file,
\* and a file whose stop check (line 118 or 123) came after stop() is
\* neither announced, read, sent to the API nor written.
C1_StopWithinOneIteration ==
    \A w \in Slots :
        /\ hist[w].sinceStop <= 1
        /\ InFile(w) => ~hist[w].stopAtCheck

\* A stopped run that started one file after stop() and left the next
\* file of its list untouched.
C1_Witness ==
    \E w \in Slots :
        /\ fp[w].pc = "done"
        /\ hist[w].sinceStop = 1
        /\ Len(hist[w].started) < Total(fp[w])
        /\ hist[w].emitted # <<>>
        /\ hist[w].emitted[1].msg = MsgStopped

\* C2 as stated: while the pause flag is set and stop() has not been
\* called, run() starts no new file.
C2_NoStartWhilePaused ==
    \A w \in Slots : hist[w].sincePause = 0

\* C2 amended: while the pause flag is set and stop() has not been called,
\* run() starts at most one file, the one whose pause poll (line 121) had
\* passed before the flag was set; a file whose pause poll finds the flag
\* set is not started.
C2_PauseSuspends ==
    \A w \in Slots :
        /\ hist[w].sincePause <= 1
        /\ fp[w].pc = "progress" => ~hist[w].pausedAtPoll

\* A worker in the pause wait, not stopped, one file having been started
\* after the flag was set.
C2_Witness ==
    \E w \in Slots :
        /\ fp[w].pc = "sleep"
        /\ fp[w].is_running
        /\ fp[w].is_paused
        /\ hist[w].sincePause = 1

\* C3: a failure of reading, of the API call or of writing is recorded in
\* error_log, and a run that is not stopped attempts every file of the
\* collected list.
C3_FailureDoesNotAbort ==
    \A w \in Slots :
        /\ ListsFailures(fp[w].error_log, w)
        /\ (fp[w].pc \in {"final", "done"} /\ ~hist[w].stopInRun)
               => /\ Len(hist[w].started) = Total(fp[w])
                  /\ Len(hist[w].outcome) = Total(fp[w])

\* A run, never stopped, whose first file failed and whose second file was
\* attempted.
C3_Witness ==
    \E w \in Slots :
        /\ fp[w].pc = "done"
        /\ ~hist[w].stopInRun
        /\ Len(hist[w].outcome) = 2
        /\ hist[w].outcome[1] # "ok"
        /\ Len(fp[w].error_log) >= 1

\* The text of the extension field without its surrounding blanks.
ConfiguredExtension == strip(settings.output_extension)

\* A file name without its final extension: the part before the last dot,
\* when a character other than a dot stands before that dot.
Stem(name) ==
    LET dots == { k \in DOMAIN name : name[k] = "." }
        last == CHOOSE k \in dots : \A m \in dots : m <= k
    IN  IF dots # {} /\ (\E m \in 1..(last - 1) : name[m] # ".")
        THEN SubSeq(name, 1, last - 1)
        ELSE name

\* The location at which the output of the input file at location src is
\* to be found: below the output folder, with the folders of src below the
\* input folder, the name of src carrying the configured extension.
ExpectedLocation(src) ==
    LET inLoc == abspath(settings.input_path)
        rel == SubSeq(src, Len(inLoc) + 1, Len(src))
        name == rel[Len(rel)]
        ext == IF ConfiguredExtension[1] = "." THEN ConfiguredExtension
               ELSE <<".">> \o ConfiguredExtension
    IN  abspath(settings.output_path)
            \o SubSeq(rel, 1, Len(rel) - 1)
            \o << IF ConfiguredExtension = <<>> THEN name ELSE Stem(name) \o ext >>

\* C4: every successfully processed input file at input_path/rel is written
\* to output_path/rel when the configured extension is empty, and otherwise
\* to output_path/(rel with its final extension replaced by the configured
\* one, a leading dot added when missing); the folders of rel are kept and
\* created.
C4_OutputPathMirrors ==
    \A w \in Slots : \A k \in DOMAIN hist[w].written :
        LET e == hist[w].written[k]
            expected == ExpectedLocation(abspath(e.src))
        IN  /\ abspath(e.dst) = expected
            /\ abspath(e.made) = SubSeq(expected, 1, Len(expected) - 1)
            /\ expected \in fs

\* Two files written in one run, the second from a subfolder, the
\* extension being configured without its dot.
C4_Witness ==
    \E w \in Slots :
        /\ Len(hist[w].written) = 2
        /\ Len(abspath(hist[w].written[2].src)) > Len(abspath(settings.input_path)) + 1
        /\ ConfiguredExtension # <<>>
        /\ ConfiguredExtension[1] # "."

\* C5 as stated: every call of run() emits processing_finished exactly
\* once before it returns.
C5_FinishedExactlyOnce ==
    \A w \in Slots :
        /\ Len(hist[w].emitted) <= 1
        /\ fp[w].pc = "done" => Len(hist[w].emitted) = 1

\* C6 as stated: between any two consecutive API calls of one run the
\* worker sleeps for the processing delay.
C6_SleepBetweenCalls ==
    \A w \in Slots : ~hist[w].apiNoSleep

\* C7: the files a run starts are a prefix of the collected list, in list
\* order, each started once, whatever failures and pause toggles occur.
C7_StartedIsPrefix ==
    \A w \in Slots :
        /\ Len(hist[w].started) <= Total(fp[w])
        /\ \A k \in DOMAIN hist[w].started :
               hist[w].started[k] = fp[w].files_to_process[k]
        /\ \A a, b \in DOMAIN hist[w].started :
               a # b => hist[w].started[a] # hist[w].started[b]
        /\ Len(hist[w].started) \in {fp[w].i, fp[w].i + 1}

\* A worker in the pause wait before its second file, the first file
\* having failed.
C7_Witness ==
    \E w \in Slots :
        /\ fp[w].pc = "sleep"
        /\ Len(hist[w].started) = 1
        /\ Len(hist[w].outcome) = 1
        /\ hist[w].outcome[1] # "ok"
        /\ Total(fp[w]) = 2

\* C8: when stop() is called while the worker is in the pause wait, the
\* worker starts no further file and its next poll of the stop flag ends
\* the run with "Processing stopped by user.", the pause flag still set.
C8_StopOverridesPause ==
    \A w \in Slots :
        /\ hist[w].stopInPause =>
               /\ hist[w].sinceStop = 0
               /\ fp[w].pc \in {"sleep", "chk_pause", "done"}
        /\ hist[w].polledAfterStop =>
               /\ fp[w].pc = "done"
               /\ Len(hist[w].emitted) = 1
               /\ hist[w].emitted[1].msg = MsgStopped

\* A run ended by stop() from the pause wait, the flag still set and the
\* window still inside wait().
C8_Witness ==
    \E w \in Slots :
        /\ hist[w].polledAfterStop
        /\ fp[w].pc = "done"
        /\ fp[w].is_paused
        /\ uiWait = "stop"
        /\ Len(hist[w].started) < Total(fp[w])

\* C9: the list delivered with processing_finished holds one entry for
\* each file that failed among the files attempted, in processing order,
\* when the run completes and when it is stopped.
C9_ErrorLogSurfaced ==
    \A w \in Slots : \A k \in DOMAIN hist[w].emitted :
        ListsFailures(hist[w].emitted[k].errors, w)

\* A stopped run that reports the failure of its first file.
C9_Witness ==
    \E w \in Slots :
        /\ Len(hist[w].emitted) = 1
        /\ hist[w].emitted[1].msg = MsgStopped
        /\ Len(hist[w].emitted[1].errors) = 1

\* C10: at most one run() is executing at any time.
C10_SingleWorker ==
    Cardinality({ w \in Slots : Executing(w) }) <= 1

\* A worker in its run while the signal of an earlier worker, which has
\* returned, is still queued.
C10_Witness ==
    \E w \in Slots :
        /\ Executing(w)
        /\ fp[w].pc = "api"
        /\ hist[w].emitted = <<>>
        /\ pendingFinished >= 1

\* The strings of a sequence.
Range(seq) == { seq[k] : k \in DOMAIN seq }

\* The location of the input folder, and the files and folders it holds.
InputLoc == abspath(settings.input_path)
Below(entries, loc) ==
    { e \in entries : Len(e) > Len(loc) /\ SubSeq(e, 1, Len(loc)) = loc }
Scanned == report # NoReport
ValidInput == settings.input_path # <<>> /\ InputLoc \in dirs

\* C11: for a valid input folder the scan reports as files_found the number
\* of files directly in the input folder when process_subfolders is false,
\* the number of files of the whole input tree when it is true, and warns
\* that no files were found exactly when that number is 0.
C11_ScanCountsFiles ==
    (Scanned /\ ValidInput) =>
        LET tree == Below(fs, InputLoc)
            direct == { f \in tree : Len(f) = Len(InputLoc) + 1 }
        IN  /\ report.files_found =
                   Cardinality(IF settings.process_subfolders THEN tree ELSE direct)
            /\ (WarnNoFiles \in Range(report.warnings)) <=> (report.files_found = 0)

\* A scan that leaves the file of a subfolder out of its count.
C11_Witness ==
    /\ Scanned
    /\ ValidInput
    /\ ~settings.process_subfolders
    /\ report.files_found = 1
    /\ Cardinality(Below(fs, InputLoc)) = 2

\* C12: the scan sets subfolders_found exactly when the input folder holds
\* at least one folder, whatever process_subfolders is, and warns that
\* subfolders are ignored exactly when subfolders_found is set and
\* process_subfolders is not.
C12_ScanFlagsSubfolders ==
    Scanned =>
        /\ report.subfolders_found <=> (ValidInput /\ Below(dirs, InputLoc) # {})
        /\ (WarnSubfolders \in Range(report.warnings))
               <=> (report.subfolders_found /\ ~settings.process_subfolders)

\* A scan with process_subfolders set that finds a subfolder holding no
\* file and does not warn.
C12_Witness ==
    /\ Scanned
    /\ settings.process_subfolders
    /\ report.subfolders_found
    /\ Below(fs, InputLoc) = {}
    /\ WarnSubfolders \notin Range(report.warnings)

\* The extension of a file name, letters in lower case; the empty sequence
\* for a name without extension.
Extension(name) == lower(SubSeq(name, Len(Stem(name)) + 1, Len(name)))

\* C13: the scan warns of multiple file formats exactly when two of the
\* counted files (those of the top level only when process_subfolders is
\* false) differ in their extension, letter case set aside, files without
\* extension being of one format.
C13_ScanFlagsFormats ==
    (Scanned /\ ValidInput) =>
        LET tree == Below(fs, InputLoc)
            counted == IF settings.process_subfolders THEN tree
                       ELSE { f \in tree : Len(f) = Len(InputLoc) + 1 }
        IN  (WarnFormats \in Range(report.warnings))
                <=> \E f, g \in counted :
                        Extension(f[Len(f)]) # Extension(g[Len(g)])

\* A scan that counts two files whose extensions differ in letter case
\* only, and does not warn.
C13_Witness ==
    /\ Scanned
    /\ report.files_found = 2
    /\ \E f, g \in Below(fs, InputLoc) :
           /\ SubSeq(f[Len(f)], Len(Stem(f[Len(f)])) + 1, Len(f[Len(f)]))
                  # SubSeq(g[Len(g)], Len(Stem(g[Len(g)])) + 1, Len(g[Len(g)]))
           /\ Extension(f[Len(f)]) = Extension(g[Len(g)])
           /\ Extension(f[Len(f)]) # <<>>
    /\ WarnFormats \notin Range(report.warnings)

\* C14: for a valid input folder the scan sets output_has_files, and warns
\* that the output folder is not empty, exactly when the output path is a
\* folder that holds at least one file or folder; an output path at which
\* nothing stands is not flagged.
C14_ScanFlagsOutput ==
    (Scanned /\ ValidInput) =>
        LET outLoc == abspath(settings.output_path)
            flagged == /\ outLoc \in dirs
                       /\ \E e \in Below(fs \cup dirs, outLoc) : Len(e) = Len(outLoc) + 1
        IN  /\ report.output_has_files <=> flagged
            /\ (WarnOutput \in Range(report.warnings)) <=> flagged

\* A scan that flags an output folder holding nothing but a folder.
C14_Witness ==
    /\ Scanned
    /\ ValidInput
    /\ report.output_has_files
    /\ Below(fs, abspath(settings.output_path)) = {}
    /\ WarnOutput \in Range(report.warnings)

\* What settings.json holds, read without error: its window-state fields
\* and its API key.
WindowFields(file) == pop_api_key(load_all_settings(file, TRUE))
StoredKey(file) == get_api_key(load_all_settings(file, TRUE))

\* result holds every field of state with the value of state.
HoldsFields(result, state) ==
    \A k \in DOMAIN state : k \in DOMAIN result /\ result[k] = state[k]

C17_ContinueOnlyForValidatedKey ==
    welcome_window.continue_enabled => strip(welcome_window.text) \in reported_valid

\* The attempts of run w that ended because reading the file, the API call
\* or writing the output failed.
ActualFailures(w) ==
    { k \in DOMAIN hist[w].outcome :
        hist[w].outcome[k] \in { "read_fail", "api_fail", "write_fail" } }

\* C18 as stated: a file is recorded as failed only if reading it, the API
\* call for it or writing its output failed; a text the model returns is
\* never recorded as a failure.
C18_FailedOnlyIfFailed ==
    \A w \in Slots : Len(fp[w].error_log) = Cardinality(ActualFailures(w))

\* The locations run w has written.
WrittenLocations(w) ==
    { abspath(hist[w].written[k].dst) : k \in DOMAIN hist[w].written }

\* C19 as stated: the input files of one run are written to distinct
\* output paths: the number of output files a run has written is its
\* success_count, no output being overwritten by a later one of the run.
C19_DistinctOutputs ==
    \A w \in Slots : Cardinality(WrittenLocations(w)) = fp[w].success_count

\* C20 as stated: no output path a run writes is the path of a file of the
\* list the run has collected.
C20_InputNotOverwritten ==
    \A w \in Slots : \A k \in DOMAIN fp[w].files_to_process :
        abspath(fp[w].files_to_process[k]) \notin WrittenLocations(w)

\* The status label shows the outcome of a validation.
Decided == welcome_window.status \in { "API Key is valid!", "Invalid API Key." }

\* C21 as stated: once the user edits the key field no more, a key being
\* in the field, the status becomes valid or invalid and does not stay at
\* "..." or at "Checking key...".
C21_SettledKeyIsValidated ==
    <>[][~EditText]_vars => <>[](strip(welcome_window.text) = <<>> \/ Decided)

\* One of the four required settings is missing or empty.
SomeSettingMissing ==
    \/ settings.input_path = <<>>
    \/ settings.output_path = <<>>
    \/ settings.prompt_text = ""
    \/ settings.selected_model_name = ""

\* C22: a run() with one of input_path, output_path, prompt_text and
\* selected_model_name missing or empty emits "Error: Missing required
\* settings." with an empty list and returns; it sets no model, collects
\* no file list, reads no file, calls no API and writes no output.
C22_MissingSettingsEndRun ==
    \A w \in Slots :
        (SomeSettingMissing /\ fp[w].pc \notin { "free", "new" }) =>
            /\ fp[w].pc = "done"
            /\ hist[w].emitted = << [msg |-> MsgMissing, errors |-> <<>>] >>
            /\ fp[w].model = "none"
            /\ fp[w].files_to_process = <<>>
            /\ hist[w].started = <<>>
            /\ hist[w].outcome = <<>>
            /\ hist[w].written = <<>>

\* A run ended for its empty prompt alone, files being in the input folder.
C22_Witness ==
    \E w \in Slots :
        /\ fp[w].pc = "done"
        /\ settings.prompt_text = ""
        /\ settings.input_path # <<>>
        /\ settings.output_path # <<>>
        /\ settings.selected_model_name # ""
        /\ FilesBelow(fs, abspath(settings.input_path)) # {}
        /\ Len(hist[w].emitted) = 1

\* The files the pre-flight scan counts in the state.
CountedFiles ==
    IF ~ValidInput THEN {}
    ELSE IF settings.process_subfolders THEN Below(fs, InputLoc)
    ELSE { f \in Below(fs, InputLoc) : Len(f) = Len(InputLoc) + 1 }

NoWorker == cur = 0 /\ ui = "idle" /\ \A w \in Slots : fp[w].pc = "free"

\* C23: when the two folders are given and are one absolute path, or when
\* the pre-flight scan counts no file, a click on Start creates no
\* FileProcessor and the controls stay idle.  (The folders and the input
\* files stay as they are in these runs, so that the condition of a click
\* is the condition of every click.)
C23_RefusedStartsNothing ==
    ( \/ /\ settings.input_path # <<>>
          /\ settings.output_path # <<>>
          /\ abspath(settings.input_path) = abspath(settings.output_path)
      \/ CountedFiles = {} ) => NoWorker

\* Start has been refused for two folders that are written differently and
\* hold files.
C23_Witness ==
    /\ dialog = DialogPathError
    /\ settings.input_path # settings.output_path
    /\ CountedFiles # {}
    /\ NoWorker

\* C24: generate_content returns a string whatever the remote call does;
\* without a model the string starts with 'ERROR:' and the remote service
\* has not been called; when the remote call raises the string starts with
\* 'ERROR:'.
C24_GenerateContentReturnsText ==
    \A w \in Slots :
        hist[w].call.made =>
            /\ hist[w].call.result # Raised
            /\ fp[w].model = "none" =>
                   /\ hist[w].call.remote = "none"
                   /\ startswith(hist[w].call.result, <<"ERROR:">>)
            /\ hist[w].call.remote = "raise" =>
                   startswith(hist[w].call.result, <<"ERROR:">>)

\* The remote call of a worker with a model has raised.
C24_Witness ==
    \E w \in Slots :
        /\ fp[w].model # "none"
        /\ hist[w].call.made
        /\ hist[w].call.remote = "raise"
        /\ startswith(hist[w].call.result, <<"ERROR:">>)

\* C25: when an iteration of the loop has ended, success_count +
\* len(error_log) is the number of files attempted so far; when the loop has
\* ended it is total_files; and 'Successfully processed N of M files.' is
\* emitted only with N = M and an empty error log.
C25_CountsAddUp ==
    \A w \in Slots :
        /\ fp[w].pc \in { "loop", "final" } =>
               fp[w].success_count + Len(fp[w].error_log) = fp[w].i
        /\ fp[w].pc = "final" =>
               fp[w].success_count + Len(fp[w].error_log) = Total(fp[w])
        /\ \A k \in DOMAIN hist[w].emitted :
               hist[w].emitted[k].msg.kind = "Successfully processed" =>
                   /\ hist[w].emitted[k].msg.a = hist[w].emitted[k].msg.b
                   /\ hist[w].emitted[k].msg.b = Total(fp[w])
                   /\ hist[w].emitted[k].errors = <<>>

\* A run of two files, one written and one failed, has ended its loop.
C25_Witness ==
    \E w \in Slots :
        /\ fp[w].pc = "final"
        /\ Total(fp[w]) = 2
        /\ fp[w].success_count = 1
        /\ Len(fp[w].error_log) = 1

\* The validator threads that have been started and have not returned.
RunningValidators ==
    Len(welcome_window.unreferenced)
    + (IF welcome_window.validator_thread.pc \in { "started", "emitted" } THEN 1 ELSE 0)

\* C26: at most one ApiKeyValidator thread is running at any time.
C26_OneValidator == RunningValidators <= 1

\* The debounce timer has fired for another key while the validator was
\* running, and no second validator was started.
C26_Witness ==
    /\ RunningValidators = 1
    /\ welcome_window.validator_thread.pc = "started"
    /\ strip(welcome_window.text) \notin { <<>>, welcome_window.validator_thread.api_key }
    /\ ~welcome_window.timer_active

StopCalled(w) == hist[w].stopInRun

\* run() has returned after it took up every file and emitted a summary.
Completed(w) ==
    /\ fp[w].pc = "done"
    /\ Len(hist[w].started) = Total(fp[w])
    /\ hist[w].emitted # <<>>
    /\ hist[w].emitted[Len(hist[w].emitted)].msg.kind
           \in { "Successfully processed", "Processing finished with issues." }

\* C28: run() terminates.  When stop() is never called and the pause flag
\* is in the end left unset, a run that has entered its loop ends with
\* every file attempted and a summary emitted; when stop() is called,
\* run() returns.
C28_RunTerminates ==
    /\ ([](\A w \in Slots : ~StopCalled(w)) /\ <>[](\A w \in Slots : ~fp[w].is_paused))
           => \A w \in Slots : (fp[w].pc = "loop") ~> Completed(w)
    /\ \A w \in Slots : StopCalled(w) ~> (fp[w].pc = "done")

\* A run of two files that was paused and never stopped has ended with
\* its summary.
C28_Witness ==
    \E w \in Slots :
        /\ Completed(w)
        /\ Total(fp[w]) = 2
        /\ ~StopCalled(w)
        /\ hist[w].sincePause > 0

\* C29 as stated: within one launch UpdateChecker.run is executed at most
\* once and the 'Update Available' dialog is shown at most once, whatever
\* keys are submitted, 'Change API Key' requests made and main windows
\* closed.
C29_UpdateCheckOnce == controller.checks <= 1 /\ controller.dialogs <= 1

====
